---- MODULE Spec2Model ----
(***************************************************************************)
(* A model of the value-format renderer of spreadsheet-ods                 *)
(* (src/src/format.rs), of the attribute container AttrMap2                *)
(* (src/src/attrmap2.rs) and of the Detach slot (src/src/ds/mod.rs).       *)
(*                                                                         *)
(* Conventions.                                                            *)
(*   - A Rust String is a sequence of one-character strings, so that       *)
(*     parsing and formatting are computed character by character.         *)
(*   - Option<T> is a sequence of length 0 (None) or 1 (Some(v)).          *)
(*   - Attribute keys (DefaultAtom) are only ever compared, and are        *)
(*     TLA+ strings.                                                       *)
(***************************************************************************)
EXTENDS Integers, Sequences, FiniteSets, TLC

VARIABLES
    fmt,      \* the ValueFormat under construction / being rendered
    last,     \* the most recent call on fmt, its argument and what it returned
    am,       \* an AttrMap2
    amlast,   \* the most recent call on am, its arguments and what it returned
    dd,       \* a Detach<T>, or None once take() has consumed it
    handles,  \* the Detached<K, T> handles the caller holds
    dlast,    \* the most recent call on dd, what it returned, whether it panicked
    hist,     \* since dd was created: the latest of detach/attach, and any panic
    th        \* the render calls in progress, one per thread

fmtvars == <<fmt, last>>
attrvars == <<am, amlast>>
detvars == <<dd, handles, dlast, hist>>

vars == <<fmt, last, am, amlast, dd, handles, dlast, hist, th>>

(***************************************************************************)
(* Bounds of the model.                                                    *)
(***************************************************************************)
\* The longest part sequence a ValueFormat is grown to.
MaxParts == 3
\* The longest slice handed to AttrMap2::add_all.
MaxSlice == 2
\* The most Detached handles the caller holds at a time.
MaxHandles == 2
\* The threads that render one shared ValueFormat.
NThreads == 2
\* The longest part sequence of the shared ValueFormat.
MaxSharedParts == 2
\* The longest vector handed to push_parts.
MaxVec == 2

(***************************************************************************)
(* Option and String helpers.                                              *)
(***************************************************************************)
None == <<>>
Some(v) == <<v>>
IsSome(o) == Len(o) = 1
IsNone(o) == Len(o) = 0
Unwrap(o) == o[1]

\* String::new()
EmptyStr == <<>>

DigitChars == <<"0", "1", "2", "3", "4", "5", "6", "7", "8", "9">>

IsDigit(c) == \E i \in 1..10 : DigitChars[i] = c

DigitVal(c) == CHOOSE i \in 0..9 : DigitChars[i + 1] = c

RECURSIVE Pow10(_)
Pow10(n) == IF n = 0 THEN 1 ELSE 10 * Pow10(n - 1)

\* u64/usize to_string(): the decimal digits of a natural number.
RECURSIVE NatToString(_)
NatToString(n) ==
    IF n < 10 THEN <<DigitChars[n + 1]>>
    ELSE NatToString(n \div 10) \o <<DigitChars[(n % 10) + 1]>>

\* i64::to_string(): a leading "-" for a negative number.
IntToString(n) == IF n < 0 THEN <<"-">> \o NatToString(-n) ELSE NatToString(n)

\* The decimal digits of n, zero-padded on the left to at least w characters.
RECURSIVE ZeroPad(_, _)
ZeroPad(s, w) == IF Len(s) >= w THEN s ELSE ZeroPad(<<"0">> \o s, w)

\* Rust's integer division truncates toward zero.
TruncDiv(a, b) == IF a >= 0 THEN a \div b ELSE -((-a) \div b)

\* Rust's % is the remainder of the truncating division: it has the sign
\* of the dividend.
RustRem(a, b) == a - b * TruncDiv(a, b)

(***************************************************************************)
(* str::parse::<usize>(): an optional leading "+", then at least one       *)
(* digit and nothing but digits.  Some(n) is Ok(n), None is Err(_).        *)
(***************************************************************************)
RECURSIVE DigitsValue(_, _)
DigitsValue(s, acc) ==
    IF s = <<>> THEN acc ELSE DigitsValue(Tail(s), 10 * acc + DigitVal(Head(s)))

parse_usize(s) ==
    LET digits == IF s # <<>> /\ Head(s) = "+" THEN Tail(s) ELSE s
    IN  IF digits # <<>> /\ \A i \in 1..Len(digits) : IsDigit(digits[i])
        THEN Some(DigitsValue(digits, 0))
        ELSE None

(***************************************************************************)
(* The FormatPartType enum.                                                *)
(***************************************************************************)
FormatPartType ==
    {"Boolean", "Number", "Fraction", "Scientific", "CurrencySymbol", "Day",
     "Month", "Year", "Era", "DayOfWeek", "WeekOfYear", "Quarter", "Hours",
     "Minutes", "Seconds", "AmPm", "EmbeddedText", "Text", "TextContent"}

(***************************************************************************)
(* The AttrMap trait on Option<AttrMapType>, as FormatPart uses it.  An    *)
(* AttrMapType is a function from the keys set to their values.            *)
(***************************************************************************)
EmptyMap == [k \in {} |-> <<>>]

MapInsert(m, k, v) == [x \in (DOMAIN m) \cup {k} |-> IF x = k THEN v ELSE m[x]]

\* AttrMap::attr: the value of the attribute, if the map exists and holds it.
AttrMap_attr(attr, name) ==
    IF IsSome(attr) /\ name \in DOMAIN Unwrap(attr)
    THEN Some(Unwrap(attr)[name])
    ELSE None

\* AttrMap::set_attr: creates the map on first use, then inserts.
AttrMap_set_attr(attr, name, value) ==
    Some(MapInsert(IF IsSome(attr) THEN Unwrap(attr) ELSE EmptyMap, name, value))

\* AttrMap::add_all: creates the map, then inserts each pair in order.
RECURSIVE AttrMap_add_all(_, _)
AttrMap_add_all(attr, data) ==
    IF data = <<>> THEN Some(IF IsSome(attr) THEN Unwrap(attr) ELSE EmptyMap)
    ELSE AttrMap_add_all(AttrMap_set_attr(attr, Head(data)[1], Head(data)[2]),
                         Tail(data))

(***************************************************************************)
(* FormatPart.                                                             *)
(***************************************************************************)
FormatPart_new(ftype) ==
    [part_type |-> ftype, attr |-> None, content |-> None]

FormatPart_new_content(ftype, content) ==
    [part_type |-> ftype, attr |-> None, content |-> Some(content)]

FormatPart_new_vec(ftype, prp_vec) ==
    [part_type |-> ftype, attr |-> AttrMap_add_all(None, prp_vec), content |-> None]

\* FormatPart::attr_def: the attribute, or the default when it is not set.
FormatPart_attr_def(self, name, default) ==
    LET v == AttrMap_attr(self.attr, name)
    IN  IF IsSome(v) THEN Unwrap(v) ELSE default

(***************************************************************************)
(* f64 values.  A finite value is (-1)^neg * num / 10^scale, written with  *)
(* its shortest decimal digits; NaN and the infinities are classes of      *)
(* their own.                                                              *)
(***************************************************************************)
Finite(neg, num, scale) == [cls |-> "finite", neg |-> neg, num |-> num, scale |-> scale]
NaN == [cls |-> "nan", neg |-> FALSE, num |-> 0, scale |-> 0]
Infinity(neg) == [cls |-> "inf", neg |-> neg, num |-> 0, scale |-> 0]

\* How core::fmt writes a value that is not finite, whatever the precision.
NonFiniteString(f) ==
    IF f.cls = "nan" THEN <<"N", "a", "N">>
    ELSE (IF f.neg THEN <<"-">> ELSE <<>>) \o <<"i", "n", "f">>

\* format!("{:.*}", dec, f): fixed-point notation with exactly dec fractional
\* digits, the value rounded to the nearest such number (ties to even); the
\* sign is written whenever the value's sign bit is set.
FixedPoint(dec, f) ==
    IF f.cls # "finite" THEN NonFiniteString(f)
    ELSE
        LET n == f.num * Pow10(dec)
            d == Pow10(f.scale)
            q == n \div d
            r == n % d
            rounded == IF 2 * r > d \/ (2 * r = d /\ q % 2 = 1) THEN q + 1 ELSE q
            int == rounded \div Pow10(dec)
            frac == rounded % Pow10(dec)
        IN  (IF f.neg THEN <<"-">> ELSE <<>>)
            \o NatToString(int)
            \o (IF dec > 0 THEN <<".">> \o ZeroPad(NatToString(frac), dec) ELSE <<>>)

\* The decimal digits of n without its trailing zeros.
RECURSIVE StripZeros(_)
StripZeros(n) == IF n # 0 /\ n % 10 = 0 THEN StripZeros(n \div 10) ELSE n

\* format!("{:e}", f): the shortest digits, one before the point, and the
\* decimal exponent.
LowerExp(f) ==
    IF f.cls # "finite" THEN NonFiniteString(f)
    ELSE
        LET digits == NatToString(StripZeros(f.num))
            exp == IF f.num = 0 THEN 0 ELSE Len(NatToString(f.num)) - 1 - f.scale
        IN  (IF f.neg THEN <<"-">> ELSE <<>>)
            \o <<Head(digits)>>
            \o (IF Len(digits) > 1 THEN <<".">> \o Tail(digits) ELSE <<>>)
            \o <<"e">> \o IntToString(exp)

(***************************************************************************)
(* chrono::NaiveDateTime and the strftime items format_datetime uses.  A   *)
(* timestamp is its calendar fields (proleptic Gregorian, no leap second). *)
(***************************************************************************)
DateTime(y, mo, d, h, mi, s) ==
    [year |-> y, month |-> mo, day |-> d, hour |-> h, minute |-> mi, second |-> s]

IsLeapYear(y) == (y % 4 = 0 /\ y % 100 # 0) \/ y % 400 = 0

DaysInMonth(y, m) ==
    IF m = 2 THEN (IF IsLeapYear(y) THEN 29 ELSE 28)
    ELSE IF m \in {4, 6, 9, 11} THEN 30 ELSE 31

\* Datelike::ordinal(): the day of the year, from 1.
RECURSIVE DaysBeforeMonth(_, _)
DaysBeforeMonth(y, m) ==
    IF m = 1 THEN 0 ELSE DaysBeforeMonth(y, m - 1) + DaysInMonth(y, m - 1)

Ordinal(d) == DaysBeforeMonth(d.year, d.month) + d.day

\* Weekday::num_days_from_monday(): 0 for Monday .. 6 for Sunday.
DaysFromMonday(d) ==
    LET t == <<0, 3, 2, 5, 0, 3, 5, 1, 4, 6, 2, 4>>
        y == IF d.month < 3 THEN d.year - 1 ELSE d.year
        fromSunday == (y + (y \div 4) - (y \div 100) + (y \div 400) + t[d.month] + d.day) % 7
    IN  (fromSunday + 6) % 7

MonthNames ==
    <<<<"J", "a", "n", "u", "a", "r", "y">>,
      <<"F", "e", "b", "r", "u", "a", "r", "y">>,
      <<"M", "a", "r", "c", "h">>,
      <<"A", "p", "r", "i", "l">>,
      <<"M", "a", "y">>,
      <<"J", "u", "n", "e">>,
      <<"J", "u", "l", "y">>,
      <<"A", "u", "g", "u", "s", "t">>,
      <<"S", "e", "p", "t", "e", "m", "b", "e", "r">>,
      <<"O", "c", "t", "o", "b", "e", "r">>,
      <<"N", "o", "v", "e", "m", "b", "e", "r">>,
      <<"D", "e", "c", "e", "m", "b", "e", "r">>>>

WeekdayNames ==
    <<<<"M", "o", "n", "d", "a", "y">>,
      <<"T", "u", "e", "s", "d", "a", "y">>,
      <<"W", "e", "d", "n", "e", "s", "d", "a", "y">>,
      <<"T", "h", "u", "r", "s", "d", "a", "y">>,
      <<"F", "r", "i", "d", "a", "y">>,
      <<"S", "a", "t", "u", "r", "d", "a", "y">>,
      <<"S", "u", "n", "d", "a", "y">>>>

\* "%d" and "%-d"
Strftime_d(d, pad) == IF pad THEN ZeroPad(NatToString(d.day), 2) ELSE NatToString(d.day)
\* "%m" and "%-m"
Strftime_m(d, pad) == IF pad THEN ZeroPad(NatToString(d.month), 2) ELSE NatToString(d.month)
\* "%B": the full month name
Strftime_B(d) == MonthNames[d.month]
\* "%b": the abbreviated month name, its first three letters
Strftime_b(d) == SubSeq(MonthNames[d.month], 1, 3)
\* "%Y": the full year, at least four digits
Strftime_Y(d) == ZeroPad(NatToString(d.year), 4)
\* "%y": the year modulo 100, two digits
Strftime_y(d) == ZeroPad(NatToString(d.year % 100), 2)
\* "%A": the full weekday name
Strftime_A(d) == WeekdayNames[DaysFromMonday(d) + 1]
\* "%a": the abbreviated weekday name, its first three letters
Strftime_a(d) == SubSeq(WeekdayNames[DaysFromMonday(d) + 1], 1, 3)
\* "%W" and "%-W": the week number, weeks starting on Monday
Strftime_W(d, pad) ==
    LET w == (Ordinal(d) + 6 - DaysFromMonday(d)) \div 7
    IN  IF pad THEN ZeroPad(NatToString(w), 2) ELSE NatToString(w)
\* "%H" and "%-H": the hour on the 24-hour clock
Strftime_H(d, pad) == IF pad THEN ZeroPad(NatToString(d.hour), 2) ELSE NatToString(d.hour)
\* Timelike::hour12(): 12, 1, .., 11
Hour12(d) == IF d.hour % 12 = 0 THEN 12 ELSE d.hour % 12
\* "%I" and "%-I": the hour on the 12-hour clock
Strftime_I(d, pad) == IF pad THEN ZeroPad(NatToString(Hour12(d)), 2) ELSE NatToString(Hour12(d))
\* "%M" and "%-M"
Strftime_M(d, pad) == IF pad THEN ZeroPad(NatToString(d.minute), 2) ELSE NatToString(d.minute)
\* "%S" and "%-S"
Strftime_S(d, pad) == IF pad THEN ZeroPad(NatToString(d.second), 2) ELSE NatToString(d.second)
\* "%p"
Strftime_p(d) == IF d.hour >= 12 THEN <<"P", "M">> ELSE <<"A", "M">>

(***************************************************************************)
(* time::Duration, a signed number of milliseconds.  The num_* accessors   *)
(* count whole units, truncating toward zero.                              *)
(***************************************************************************)
num_seconds(d) == TruncDiv(d, 1000)
num_minutes(d) == TruncDiv(num_seconds(d), 60)
num_hours(d) == TruncDiv(num_seconds(d), 3600)

(***************************************************************************)
(* FormatPart: what one part appends to the buffer, per value category.    *)
(***************************************************************************)
\* buf.push_str(content) when the part has content
PushContent(self, buf) ==
    IF IsSome(self.content) THEN buf \o Unwrap(self.content) ELSE buf

IsLong(self) ==
    FormatPart_attr_def(self, "number:style", <<>>) = <<"l", "o", "n", "g">>

\* Textual as soon as number:textual is set, whatever its value.
IsTextualWhenSet(self) == IsSome(AttrMap_attr(self.attr, "number:textual"))

IsTextual(self) ==
    FormatPart_attr_def(self, "number:textual", <<>>) = <<"t", "r", "u", "e">>

FormatPart_format_boolean(self, buf, b) ==
    CASE self.part_type = "Boolean" ->
            buf \o (IF b THEN <<"t", "r", "u", "e">> ELSE <<"f", "a", "l", "s", "e">>)
      [] self.part_type = "Text" -> PushContent(self, buf)
      [] OTHER -> buf

\* Takes two decimal places when number:decimal-places is not set.
FormatPart_format_float_default2(self, buf, f) ==
    CASE self.part_type = "Number" ->
            LET dec == parse_usize(FormatPart_attr_def(self, "number:decimal-places", <<"2">>))
            IN  IF IsSome(dec) THEN buf \o FixedPoint(Unwrap(dec), f) ELSE buf
      [] self.part_type = "Scientific" -> buf \o LowerExp(f)
      [] self.part_type = "CurrencySymbol" -> PushContent(self, buf)
      [] self.part_type = "Text" -> PushContent(self, buf)
      [] OTHER -> buf

FormatPart_format_float(self, buf, f) ==
    CASE self.part_type = "Number" ->
            LET dec == parse_usize(FormatPart_attr_def(self, "number:decimal-places", <<"0">>))
            IN  IF IsSome(dec) THEN buf \o FixedPoint(Unwrap(dec), f) ELSE buf
      [] self.part_type = "Scientific" -> buf \o LowerExp(f)
      [] self.part_type = "CurrencySymbol" -> PushContent(self, buf)
      [] self.part_type = "Text" -> PushContent(self, buf)
      [] OTHER -> buf

FormatPart_format_str(self, buf, s) ==
    CASE self.part_type = "TextContent" -> buf \o s
      [] self.part_type = "Text" -> PushContent(self, buf)
      [] OTHER -> buf

FormatPart_format_datetime(self, buf, d, h12) ==
    CASE self.part_type = "Day" -> buf \o Strftime_d(d, IsLong(self))
      [] self.part_type = "Month" ->
            IF IsTextual(self)
            THEN (IF IsLong(self) THEN buf \o Strftime_b(d) ELSE buf \o Strftime_B(d))
            ELSE buf \o Strftime_m(d, IsLong(self))
      [] self.part_type = "Year" ->
            IF IsLong(self) THEN buf \o Strftime_Y(d) ELSE buf \o Strftime_y(d)
      [] self.part_type = "DayOfWeek" ->
            IF IsLong(self) THEN buf \o Strftime_A(d) ELSE buf \o Strftime_a(d)
      [] self.part_type = "WeekOfYear" -> buf \o Strftime_W(d, IsLong(self))
      [] self.part_type = "Hours" ->
            IF ~h12 THEN buf \o Strftime_H(d, IsLong(self))
            ELSE buf \o Strftime_I(d, IsLong(self))
      [] self.part_type = "Minutes" -> buf \o Strftime_M(d, IsLong(self))
      [] self.part_type = "Seconds" -> buf \o Strftime_S(d, IsLong(self))
      [] self.part_type = "AmPm" -> buf \o Strftime_p(d)
      [] self.part_type = "Text" -> PushContent(self, buf)
      [] OTHER -> buf

FormatPart_format_time_duration(self, buf, d) ==
    CASE self.part_type = "Hours" -> buf \o IntToString(num_hours(d))
      [] self.part_type = "Minutes" -> buf \o IntToString(RustRem(num_minutes(d), 60))
      [] self.part_type = "Seconds" -> buf \o IntToString(RustRem(num_seconds(d), 60))
      [] self.part_type = "Text" -> PushContent(self, buf)
      [] OTHER -> buf

(***************************************************************************)
(* ValueFormat.                                                            *)
(***************************************************************************)
ValueFormat_new ==
    [name |-> <<>>, v_type |-> "Text", origin |-> "Content", styleuse |-> "Default",
     attr |-> None, text_attr |-> None, parts |-> None, stylemaps |-> None]

\* self.parts.get_or_insert_with(Vec::new)
PartsOrNew(self) == IF IsSome(self.parts) THEN Unwrap(self.parts) ELSE <<>>

ValueFormat_push_part(self, part) ==
    [self EXCEPT !.parts = Some(Append(PartsOrNew(self), part))]

\* Stores the given vector in place of the parts already there.
ValueFormat_push_parts_replace(self, partvec) == [self EXCEPT !.parts = Some(partvec)]

\* push_parts stores the vector when there is none yet, and appends to the
\* existing one otherwise.
ValueFormat_push_parts(self, partvec) ==
    IF IsNone(self.parts)
    THEN [self EXCEPT !.parts = Some(partvec)]
    ELSE [self EXCEPT !.parts = Some(Unwrap(self.parts) \o partvec)]

\* parts_mut hands out the vector, created when there was none; the caller
\* either leaves it as it is or clears it.
ValueFormat_parts_mut(self, clear) ==
    [self EXCEPT !.parts = Some(IF clear THEN <<>> ELSE PartsOrNew(self))]

\* The loops "for p in parts" of the five render entry points.
RECURSIVE LoopBoolean(_, _, _, _)
LoopBoolean(parts, i, buf, b) ==
    IF i > Len(parts) THEN buf
    ELSE LoopBoolean(parts, i + 1, FormatPart_format_boolean(parts[i], buf, b), b)

\* A loop that returns at the first part that appends nothing.
RECURSIVE LoopFloatStop(_, _, _, _)
LoopFloatStop(parts, i, buf, f) ==
    IF i > Len(parts) \/ FormatPart_format_float(parts[i], buf, f) = buf THEN buf
    ELSE LoopFloatStop(parts, i + 1, FormatPart_format_float(parts[i], buf, f), f)

RECURSIVE LoopFloat(_, _, _, _)
LoopFloat(parts, i, buf, f) ==
    IF i > Len(parts) THEN buf
    ELSE LoopFloat(parts, i + 1, FormatPart_format_float(parts[i], buf, f), f)

\* A loop that moves the input string into the first TextContent part and
\* has nothing left of it for the parts after.
RECURSIVE LoopStrConsume(_, _, _, _)
LoopStrConsume(parts, i, buf, s) ==
    IF i > Len(parts) THEN buf
    ELSE LoopStrConsume(parts, i + 1, FormatPart_format_str(parts[i], buf, s),
                        IF parts[i].part_type = "TextContent" THEN <<>> ELSE s)

RECURSIVE LoopStr(_, _, _, _)
LoopStr(parts, i, buf, s) ==
    IF i > Len(parts) THEN buf
    ELSE LoopStr(parts, i + 1, FormatPart_format_str(parts[i], buf, s), s)

RECURSIVE LoopDatetime(_, _, _, _, _)
LoopDatetime(parts, i, buf, d, h12) ==
    IF i > Len(parts) THEN buf
    ELSE LoopDatetime(parts, i + 1, FormatPart_format_datetime(parts[i], buf, d, h12), d, h12)

RECURSIVE LoopTimeDuration(_, _, _, _)
LoopTimeDuration(parts, i, buf, d) ==
    IF i > Len(parts) THEN buf
    ELSE LoopTimeDuration(parts, i + 1, FormatPart_format_time_duration(parts[i], buf, d), d)

\* Without a part vector, falls back to the value's own to_string().
ValueFormat_format_boolean_fallback(self, b) ==
    IF IsSome(self.parts) /\ Unwrap(self.parts) # <<>>
    THEN LoopBoolean(Unwrap(self.parts), 1, EmptyStr, b)
    ELSE (IF b THEN <<"t", "r", "u", "e">> ELSE <<"f", "a", "l", "s", "e">>)

ValueFormat_format_boolean(self, b) ==
    IF IsSome(self.parts) THEN LoopBoolean(Unwrap(self.parts), 1, EmptyStr, b) ELSE EmptyStr

ValueFormat_format_float(self, f) ==
    IF IsSome(self.parts) THEN LoopFloat(Unwrap(self.parts), 1, EmptyStr, f) ELSE EmptyStr

ValueFormat_format_str(self, s) ==
    IF IsSome(self.parts) THEN LoopStr(Unwrap(self.parts), 1, EmptyStr, s) ELSE EmptyStr

\* Looks for the AmPm part among the parts before the last one only.
AnyAmPmButLast(parts) == \E i \in 1..(Len(parts) - 1) : parts[i].part_type = "AmPm"

\* parts.iter().any(|v| v.part_type == FormatPartType::AmPm)
AnyAmPm(parts) == \E i \in 1..Len(parts) : parts[i].part_type = "AmPm"

ValueFormat_format_datetime(self, d) ==
    IF IsSome(self.parts)
    THEN LoopDatetime(Unwrap(self.parts), 1, EmptyStr, d, AnyAmPm(Unwrap(self.parts)))
    ELSE EmptyStr

ValueFormat_format_time_duration(self, d) ==
    IF IsSome(self.parts) THEN LoopTimeDuration(Unwrap(self.parts), 1, EmptyStr, d) ELSE EmptyStr

(***************************************************************************)
(* The inputs of the model: the parts a format is assembled from and the   *)
(* values it renders.                                                      *)
(***************************************************************************)
StyleLong == <<<<"number:style", <<"l", "o", "n", "g">>>>>>

PartPool ==
    { FormatPart_new("Boolean"),
      FormatPart_new("Number"),
      FormatPart_new_vec("Number", <<<<"number:decimal-places", <<"2">>>>>>),
      FormatPart_new_vec("Number", <<<<"number:decimal-places", <<"a", "b", "c">>>>>>),
      FormatPart_new_content("CurrencySymbol", <<"$">>),
      FormatPart_new_content("Text", <<"-">>),
      FormatPart_new("TextContent"),
      FormatPart_new("Hours"),
      FormatPart_new_vec("Hours", StyleLong),
      FormatPart_new_vec("Minutes", StyleLong),
      FormatPart_new("Seconds"),
      FormatPart_new("AmPm") }

BoolValues == BOOLEAN

FloatValues ==
    { Finite(FALSE, 314159, 5),   \* 3.14159
      Finite(FALSE, 25, 1),       \* 2.5
      Finite(FALSE, 125, 3),      \* 0.125
      Finite(TRUE, 175, 2),       \* -1.75
      NaN }

StrValues == { <<"a", "b">>, <<>> }

DateTimeValues ==
    { DateTime(2023, 1, 5, 0, 7, 9),
      DateTime(2023, 11, 25, 13, 30, 45),
      DateTime(2024, 2, 29, 12, 0, 0) }

\* milliseconds
DurationValues == { 3725000, 90061000, -90000, -1500 }

(***************************************************************************)
(* Detach<T> and Detached<K, T>.                                           *)
(***************************************************************************)
Detach_new(val) == [val |-> Some(val)]

Detach_is_detached(self) == IsNone(self.val)

Detached_new(key, val) == [key |-> key, val |-> val]

Detached_key(det) == det.key

\* Deref for Detached
Detached_deref(det) == det.val

\* The functions that expect("already detached") give the slot afterwards
\* (self), the value returned (ret, None when nothing is returned) and
\* whether the call panicked.
\* Hands out the value without taking it out of the slot.
Detach_detach_keep(self, key) ==
    IF IsSome(self.val)
    THEN [self |-> self, ret |-> Some(Detached_new(key, Unwrap(self.val))), panic |-> FALSE]
    ELSE [self |-> self, ret |-> None, panic |-> TRUE]

Detach_detach(self, key) ==
    IF IsSome(self.val)
    THEN [self |-> [self EXCEPT !.val = None],
          ret |-> Some(Detached_new(key, Unwrap(self.val))), panic |-> FALSE]
    ELSE [self |-> self, ret |-> None, panic |-> TRUE]

\* Keeps the value the slot already holds (Option::get_or_insert).
Detach_attach_if_detached(self, detached) ==
    IF IsSome(self.val) THEN self ELSE [self EXCEPT !.val = Some(detached.val)]

Detach_attach(self, detached) == [self EXCEPT !.val = Some(detached.val)]

\* Returns nothing instead of panicking.
Detach_as_ref_quiet(self) ==
    IF IsSome(self.val)
    THEN [self |-> self, ret |-> Some(Unwrap(self.val)), panic |-> FALSE]
    ELSE [self |-> self, ret |-> None, panic |-> FALSE]

Detach_as_ref(self) ==
    IF IsSome(self.val)
    THEN [self |-> self, ret |-> Some(Unwrap(self.val)), panic |-> FALSE]
    ELSE [self |-> self, ret |-> None, panic |-> TRUE]

Detach_as_mut(self) ==
    IF IsSome(self.val)
    THEN [self |-> self, ret |-> Some(Unwrap(self.val)), panic |-> FALSE]
    ELSE [self |-> self, ret |-> None, panic |-> TRUE]

\* take(mut self) consumes the slot, whether it returns or panics.
Detach_take(self) ==
    IF IsSome(self.val)
    THEN [ret |-> Some(Unwrap(self.val)), panic |-> FALSE]
    ELSE [ret |-> None, panic |-> TRUE]

\* The values and keys of the model.
DetachValues == {"fop", "bar"}

DetachKeys == {0, 1}

DetachCall(op) ==
    [op |-> op, before |-> dd, key |-> 0, arg |-> None, ret |-> None, panic |-> FALSE]

\* A call in progress on one thread: its entry point and value, the index of
\* the next part, the local buffer and the h12 flag; ret is the returned
\* String once pc is "done".
IdleThread ==
    [pc |-> "idle", op |-> "none", b |-> FALSE, f |-> NaN, s |-> <<>>,
     d |-> DateTime(0, 1, 1, 0, 0, 0), dur |-> 0, i |-> 1, buf |-> <<>>,
     h12 |-> FALSE, ret |-> <<>>]

Threads == 1..NThreads

InitOthers ==
    /\ am = [map |-> None]
    /\ amlast = [op |-> "new", before |-> [map |-> None], name |-> "", value |-> <<>>,
                 data |-> <<>>, ret |-> None, flag |-> FALSE, pairs |-> {}]
    /\ dd = Some(Detach_new("fop"))
    /\ handles = <<>>
    /\ dlast = [op |-> "new", before |-> None, key |-> 0, arg |-> None, ret |-> None,
                panic |-> FALSE]
    /\ hist = [recent |-> "none", panicked |-> FALSE]
    /\ th = [t \in Threads |-> IdleThread]

(***************************************************************************)
(* The state machine of a ValueFormat: it is assembled part by part and    *)
(* rendered, in any order.  last records the call just made.               *)
(***************************************************************************)
\* ret is the returned String.  err is the ValueFormatError handed to the
\* caller: the render entry points return String, not Result, so it is "none"
\* after every call.
Call(op) ==
    [op |-> op, part |-> FormatPart_new("Text"), b |-> FALSE, f |-> NaN, s |-> <<>>,
     d |-> DateTime(0, 1, 1, 0, 0, 0), dur |-> 0, ret |-> <<>>, err |-> "none",
     vec |-> <<>>]

RenderOps ==
    {"format_boolean", "format_float", "format_str", "format_datetime",
     "format_time_duration"}

Init ==
    /\ fmt = ValueFormat_new
    /\ last = Call("new")
    /\ InitOthers

push_part(part) ==
    /\ Len(PartsOrNew(fmt)) < MaxParts
    /\ fmt' = ValueFormat_push_part(fmt, part)
    /\ last' = [Call("push_part") EXCEPT !.part = part]
    /\ UNCHANGED <<attrvars, detvars, th>>

parts_mut(clear) ==
    /\ fmt' = ValueFormat_parts_mut(fmt, clear)
    /\ last' = [Call("parts_mut") EXCEPT !.b = clear]
    /\ UNCHANGED <<attrvars, detvars, th>>

format_boolean(b) ==
    /\ last' = [Call("format_boolean") EXCEPT !.b = b, !.ret = ValueFormat_format_boolean(fmt, b)]
    /\ UNCHANGED <<fmt, attrvars, detvars, th>>

\* Renders through parts_mut(), which creates the part vector.
format_float_parts_mut(f) ==
    /\ last' = [Call("format_float") EXCEPT !.f = f, !.ret = ValueFormat_format_float(fmt, f)]
    /\ fmt' = ValueFormat_parts_mut(fmt, FALSE)
    /\ UNCHANGED <<attrvars, detvars, th>>

format_float(f) ==
    /\ last' = [Call("format_float") EXCEPT !.f = f, !.ret = ValueFormat_format_float(fmt, f)]
    /\ UNCHANGED <<fmt, attrvars, detvars, th>>

format_str(s) ==
    /\ last' = [Call("format_str") EXCEPT !.s = s, !.ret = ValueFormat_format_str(fmt, s)]
    /\ UNCHANGED <<fmt, attrvars, detvars, th>>

format_datetime(d) ==
    /\ last' = [Call("format_datetime") EXCEPT !.d = d, !.ret = ValueFormat_format_datetime(fmt, d)]
    /\ UNCHANGED <<fmt, attrvars, detvars, th>>

format_time_duration(d) ==
    /\ last' = [Call("format_time_duration") EXCEPT !.dur = d,
                    !.ret = ValueFormat_format_time_duration(fmt, d)]
    /\ UNCHANGED <<fmt, attrvars, detvars, th>>

Next ==
    \/ \E part \in PartPool : push_part(part)
    \/ \E clear \in BOOLEAN : parts_mut(clear)
    \/ \E b \in BoolValues : format_boolean(b)
    \/ \E f \in FloatValues : format_float(f)
    \/ \E s \in StrValues : format_str(s)
    \/ \E d \in DateTimeValues : format_datetime(d)
    \/ \E d \in DurationValues : format_time_duration(d)

Spec == Init /\ [][Next]_vars

(***************************************************************************)
(* AttrMap2: map is None until the first write creates the HashMap.        *)
(***************************************************************************)
AttrMap2_new == [map |-> None]

\* self.map.get_or_insert_with(HashMap::new)
MapOrNew(self) == IF IsSome(self.map) THEN Unwrap(self.map) ELSE EmptyMap

AttrMap2_is_empty(self) == IsNone(self.map)

\* Inserts only when the name is not set yet.
AttrMap2_set_attr_if_absent(self, name, value) ==
    [self EXCEPT !.map = Some(IF name \in DOMAIN MapOrNew(self) THEN MapOrNew(self)
                              ELSE MapInsert(MapOrNew(self), name, value))]

AttrMap2_set_attr(self, name, value) ==
    [self EXCEPT !.map = Some(MapInsert(MapOrNew(self), name, value))]

RECURSIVE InsertAll(_, _)
InsertAll(m, data) ==
    IF data = <<>> THEN m
    ELSE InsertAll(MapInsert(m, Head(data)[1], Head(data)[2]), Tail(data))

AttrMap2_add_all(self, data) ==
    [self EXCEPT !.map = Some(InsertAll(MapOrNew(self), data))]

\* clear_attr: the store afterwards, and the removed value it returns.
AttrMap2_clear_attr(self, name) ==
    IF IsSome(self.map)
    THEN LET m == Unwrap(self.map)
         IN  [self |-> [self EXCEPT !.map = Some([x \in (DOMAIN m) \ {name} |-> m[x]])],
              ret |-> IF name \in DOMAIN m THEN Some(m[name]) ELSE None]
    ELSE [self |-> self, ret |-> None]

AttrMap2_attr(self, name) ==
    IF IsSome(self.map)
    THEN (IF name \in DOMAIN Unwrap(self.map) THEN Some(Unwrap(self.map)[name]) ELSE None)
    ELSE None

AttrMap2_attr_def(self, name, default) ==
    IF IsSome(self.map)
    THEN (IF name \in DOMAIN Unwrap(self.map) THEN Unwrap(self.map)[name] ELSE default)
    ELSE default

\* AttrMapIter: the pairs next() yields until it returns None (a HashMap
\* iterates in no particular order, so they are a set).
AttrMap2_iter(self) ==
    IF IsSome(self.map)
    THEN {<<k, Unwrap(self.map)[k]>> : k \in DOMAIN Unwrap(self.map)}
    ELSE {}

AttrNames == {"foo", "lol", "ful"}

AttrValues == { <<"b", "a", "z">>, <<"n", "o", "w">> }

AttrDefault == <<"d", "e", "f">>

RECURSIVE SeqsUpTo(_, _)
SeqsUpTo(S, n) ==
    IF n = 0 THEN {<<>>}
    ELSE SeqsUpTo(S, n - 1) \cup {Append(s, x) : s \in SeqsUpTo(S, n - 1), x \in S}

\* The slices handed to add_all.
AttrSlices == SeqsUpTo(AttrNames \X AttrValues, MaxSlice)

(***************************************************************************)
(* The state machine of an AttrMap2.  amlast records the call just made,   *)
(* the store it was made on and what it returned.                          *)
(***************************************************************************)
AttrCall(op) ==
    [op |-> op, before |-> am, name |-> "", value |-> <<>>, data |-> <<>>,
     ret |-> None, flag |-> FALSE, pairs |-> {}]

add_all(data) ==
    /\ am' = AttrMap2_add_all(am, data)
    /\ amlast' = [AttrCall("add_all") EXCEPT !.data = data]
    /\ UNCHANGED <<fmtvars, detvars, th>>

set_attr(name, value) ==
    /\ am' = AttrMap2_set_attr(am, name, value)
    /\ amlast' = [AttrCall("set_attr") EXCEPT !.name = name, !.value = value]
    /\ UNCHANGED <<fmtvars, detvars, th>>

clear_attr(name) ==
    /\ am' = AttrMap2_clear_attr(am, name).self
    /\ amlast' = [AttrCall("clear_attr") EXCEPT !.name = name,
                      !.ret = AttrMap2_clear_attr(am, name).ret]
    /\ UNCHANGED <<fmtvars, detvars, th>>

is_empty ==
    /\ amlast' = [AttrCall("is_empty") EXCEPT !.flag = AttrMap2_is_empty(am)]
    /\ UNCHANGED <<fmtvars, am, detvars, th>>

attr(name) ==
    /\ amlast' = [AttrCall("attr") EXCEPT !.name = name, !.ret = AttrMap2_attr(am, name)]
    /\ UNCHANGED <<fmtvars, am, detvars, th>>

attr_def(name) ==
    /\ amlast' = [AttrCall("attr_def") EXCEPT !.name = name,
                      !.value = AttrMap2_attr_def(am, name, AttrDefault)]
    /\ UNCHANGED <<fmtvars, am, detvars, th>>

iter ==
    /\ amlast' = [AttrCall("iter") EXCEPT !.pairs = AttrMap2_iter(am)]
    /\ UNCHANGED <<fmtvars, am, detvars, th>>

NextAttrMap ==
    \/ \E data \in AttrSlices : add_all(data)
    \/ \E name \in AttrNames, value \in AttrValues : set_attr(name, value)
    \/ \E name \in AttrNames : clear_attr(name)
    \/ is_empty
    \/ \E name \in AttrNames : attr(name)
    \/ \E name \in AttrNames : attr_def(name)
    \/ iter

SpecAttrMap == Init /\ [][NextAttrMap]_vars

(***************************************************************************)
(* Properties of the renderer.                                             *)
(***************************************************************************)
Parts == PartsOrNew(fmt)

HasAttr(p, name) == IsSome(p.attr) /\ name \in DOMAIN Unwrap(p.attr)

StyleIsLong(p) ==
    HasAttr(p, "number:style") /\ Unwrap(p.attr)["number:style"] = <<"l", "o", "n", "g">>

\* A Number part whose number:decimal-places is set to something that is no
\* non-negative integer.
UnparsablePlaces(p) ==
    /\ p.part_type = "Number"
    /\ HasAttr(p, "number:decimal-places")
    /\ parse_usize(Unwrap(p.attr)["number:decimal-places"]) = None

\* C1: float rendering of a format with a Number part whose
\* number:decimal-places is set but is no non-negative integer hands the
\* not-a-number error to the caller instead of a string.
C1_UnparsablePlacesRaiseNaN ==
    (last.op = "format_float" /\ \E i \in 1..Len(Parts) : UnparsablePlaces(Parts[i]))
        => last.err = "NaN"

\* The hour of an Hours part, on the 12-hour clock (12, 1, .., 11) or on the
\* 24-hour clock (0 .. 23), two digits wide when the style is long.
ExpectedHours(p, d, twelve) ==
    LET h == IF twelve THEN ((d.hour + 11) % 12) + 1 ELSE d.hour
    IN  IF StyleIsLong(p) /\ h < 10 THEN <<"0">> \o NatToString(h) ELSE NatToString(h)

RECURSIVE ExpectedDatetime(_, _, _)
ExpectedDatetime(ps, d, twelve) ==
    IF ps = <<>> THEN <<>>
    ELSE (IF Head(ps).part_type = "Hours" THEN ExpectedHours(Head(ps), d, twelve)
          ELSE FormatPart_format_datetime(Head(ps), <<>>, d, FALSE))
         \o ExpectedDatetime(Tail(ps), d, twelve)

\* C2: in one format_datetime call every Hours part renders on the 12-hour
\* clock if some part of the format, at whatever position, is an AmPm part,
\* and every Hours part renders on the 24-hour clock if none is.
C2_AmPmAnywhereSwitchesAllHours ==
    last.op = "format_datetime" =>
        last.ret = ExpectedDatetime(Parts, last.d,
                       \E i \in 1..Len(Parts) : Parts[i].part_type = "AmPm")

\* Two Hours parts followed by the AmPm part, rendered for an afternoon hour.
C2_Witness ==
    /\ last.op = "format_datetime"
    /\ last.d.hour > 12
    /\ Len(Parts) = 3
    /\ Parts[1].part_type = "Hours"
    /\ Parts[2].part_type = "Hours"
    /\ Parts[3].part_type = "AmPm"
    /\ last.ret = <<"1", "0", "1", "P", "M">>

\* C3: a format with no parts (parts never set, or an empty vector created
\* through parts_mut) renders every value of every category as the empty
\* string.
C3_NoPartsRenderEmpty ==
    (last.op \in RenderOps /\ (fmt.parts = None \/ fmt.parts = Some(<<>>)))
        => last.ret = <<>>

\* A boolean rendered by a format whose empty part vector parts_mut created.
C3_Witness ==
    /\ last.op = "format_boolean"
    /\ last.b = TRUE
    /\ fmt.parts = Some(<<>>)
    /\ last.ret = <<>>

\* The kinds that mean something to each render entry point.
Meaningful(op) ==
    CASE op = "format_boolean" -> {"Boolean", "Text"}
      [] op = "format_float" -> {"Number", "Scientific", "CurrencySymbol", "Text"}
      [] op = "format_str" -> {"TextContent", "Text"}
      [] op = "format_datetime" ->
            {"Day", "Month", "Year", "DayOfWeek", "WeekOfYear", "Hours", "Minutes",
             "Seconds", "AmPm", "Text"}
      [] op = "format_time_duration" -> {"Hours", "Minutes", "Seconds", "Text"}

\* What part p of the parts ps appends to an empty buffer in the call c.
Contribution(c, ps, p) ==
    CASE c.op = "format_boolean" -> FormatPart_format_boolean(p, <<>>, c.b)
      [] c.op = "format_float" -> FormatPart_format_float(p, <<>>, c.f)
      [] c.op = "format_str" -> FormatPart_format_str(p, <<>>, c.s)
      [] c.op = "format_datetime" ->
            FormatPart_format_datetime(p, <<>>, c.d,
                \E i \in 1..Len(ps) : ps[i].part_type = "AmPm")
      [] c.op = "format_time_duration" -> FormatPart_format_time_duration(p, <<>>, c.dur)

\* The contributions of the parts ps[i..], concatenated.
RECURSIVE ConcatFrom(_, _, _)
ConcatFrom(c, ps, i) ==
    IF i > Len(ps) THEN <<>>
    ELSE Contribution(c, ps, ps[i]) \o ConcatFrom(c, ps, i + 1)

\* C4: the string a render entry point returns is the concatenation, in part
\* order, of what each part contributes for that category, and a part whose
\* kind means nothing to the category contributes the empty string.
C4_ConcatenationInPartOrder ==
    last.op \in RenderOps =>
        /\ last.ret = ConcatFrom(last, Parts, 1)
        /\ \A i \in 1..Len(Parts) :
              Parts[i].part_type \notin Meaningful(last.op)
                  => Contribution(last, Parts, Parts[i]) = <<>>

\* A part that means nothing to float rendering between two that do.
C4_Witness ==
    /\ last.op = "format_float"
    /\ last.f = Finite(FALSE, 25, 1)
    /\ Len(Parts) = 3
    /\ Parts[1].part_type = "CurrencySymbol"
    /\ Parts[2].part_type = "TextContent"
    /\ Parts[3].part_type = "Number"
    /\ last.ret = <<"$", "2">>

(***************************************************************************)
(* Properties of AttrMap2.                                                 *)
(***************************************************************************)
HoldsNoEntries(self) == self.map = None \/ DOMAIN Unwrap(self.map) = {}

\* C5: a store that holds no entries behaves as one that was never written:
\* is_empty is true, attr and clear_attr return None for every name,
\* attr_def returns the default and iter yields nothing.
C5_NoEntriesLikeNeverWritten ==
    HoldsNoEntries(am) =>
        /\ AttrMap2_is_empty(am)
        /\ AttrMap2_iter(am) = {}
        /\ \A name \in AttrNames :
              /\ AttrMap2_attr(am, name) = None
              /\ AttrMap2_attr_def(am, name, AttrDefault) = AttrDefault
              /\ AttrMap2_clear_attr(am, name).ret = None

\* C6: set_attr(k, v) is an upsert and clear_attr(k) removes k and returns
\* the value it held; both leave the value of every other name as it was.
C6_SetUpsertsClearReturnsPrior ==
    /\ amlast.op = "set_attr" =>
          /\ AttrMap2_attr(am, amlast.name) = Some(amlast.value)
          /\ \A k \in AttrNames \ {amlast.name} :
                AttrMap2_attr(am, k) = AttrMap2_attr(amlast.before, k)
    /\ amlast.op = "clear_attr" =>
          /\ amlast.ret = AttrMap2_attr(amlast.before, amlast.name)
          /\ AttrMap2_attr(am, amlast.name) = None
          /\ \A k \in AttrNames \ {amlast.name} :
                AttrMap2_attr(am, k) = AttrMap2_attr(amlast.before, k)

\* set_attr on a name that held another value, next to a second name.
C6_Witness ==
    /\ amlast.op = "set_attr"
    /\ amlast.name = "lol"
    /\ AttrMap2_attr(amlast.before, "lol") = Some(<<"n", "o", "w">>)
    /\ amlast.value = <<"b", "a", "z">>
    /\ AttrMap2_attr(am, "foo") = Some(<<"b", "a", "z">>)

(***************************************************************************)
(* Properties of the renderer, continued.                                  *)
(***************************************************************************)
Abs(x) == IF x < 0 THEN -x ELSE x

\* s is a decimal numeral with exactly n fractional digits (and no point when
\* n is 0), carries the sign of f, and no numeral with n fractional digits is
\* nearer to f.
IsFixedPoint(s, n, f) ==
    LET body == IF s # <<>> /\ Head(s) = "-" THEN Tail(s) ELSE s
        point == Len(body) - n
        r == DigitsValue(SelectSeq(body, IsDigit), 0)
    IN  /\ (s # <<>> /\ Head(s) = "-") <=> f.neg
        /\ IF n = 0
           THEN Len(body) >= 1 /\ \A i \in 1..Len(body) : IsDigit(body[i])
           ELSE /\ point >= 2
                /\ body[point] = "."
                /\ \A i \in (1..Len(body)) \ {point} : IsDigit(body[i])
        /\ 2 * Abs(r * Pow10(f.scale) - f.num * Pow10(n)) <= Pow10(f.scale)

\* C7: in float rendering a Number part contributes the value in fixed-point
\* notation with exactly n fractional digits, n being number:decimal-places
\* parsed as a non-negative integer and 0 when it is not set: 3.14159 renders
\* as "3" without the attribute and as "3.14" with it set to "2".
C7_NumberFixedPointPlaces ==
    (/\ last.op = "format_float"
     /\ last.f.cls = "finite"
     /\ Len(Parts) = 1
     /\ Parts[1].part_type = "Number"
     /\ ~UnparsablePlaces(Parts[1]))
        => LET set == HasAttr(Parts[1], "number:decimal-places")
               n == IF set
                    THEN Unwrap(parse_usize(Unwrap(Parts[1].attr)["number:decimal-places"]))
                    ELSE 0
           IN  /\ IsFixedPoint(last.ret, n, last.f)
               /\ (last.f = Finite(FALSE, 314159, 5) /\ ~set) => last.ret = <<"3">>
               /\ (last.f = Finite(FALSE, 314159, 5) /\ n = 2)
                      => last.ret = <<"3", ".", "1", "4">>

\* 3.14159 rendered by a Number part with number:decimal-places "2".
C7_Witness ==
    /\ last.op = "format_float"
    /\ last.f = Finite(FALSE, 314159, 5)
    /\ Len(Parts) = 1
    /\ Parts[1].part_type = "Number"
    /\ HasAttr(Parts[1], "number:decimal-places")
    /\ Unwrap(Parts[1].attr)["number:decimal-places"] = <<"2">>
    /\ last.ret = <<"3", ".", "1", "4">>

\* C8: in format_time_duration, for every signed duration, an Hours part
\* contributes the total whole hours, a Minutes part the minutes within the
\* hour (total minutes mod 60) and a Seconds part the seconds within the
\* minute (total seconds mod 60), never padded.
C8_DurationFieldsWithinUnit ==
    (last.op = "format_time_duration" /\ Len(Parts) = 1) =>
        /\ Parts[1].part_type = "Hours" => last.ret = IntToString(num_hours(last.dur))
        /\ Parts[1].part_type = "Minutes" => last.ret = NatToString(num_minutes(last.dur) % 60)
        /\ Parts[1].part_type = "Seconds" => last.ret = NatToString(num_seconds(last.dur) % 60)

\* What format_str is to return: the whole input for every TextContent part,
\* the content of every Text part, nothing for the others.
RECURSIVE ExpectedStr(_, _)
ExpectedStr(ps, s) ==
    IF ps = <<>> THEN <<>>
    ELSE (CASE Head(ps).part_type = "TextContent" -> s
            [] Head(ps).part_type = "Text" /\ Head(ps).content # None -> Head(ps).content[1]
            [] OTHER -> <<>>)
         \o ExpectedStr(Tail(ps), s)

\* C9: in format_str every TextContent part contributes the whole input
\* string at its own position, however many there are:
\* [TextContent, Text("-"), TextContent] renders "ab" as "ab-ab".
C9_TextContentRepeatsWholeInput ==
    last.op = "format_str" => last.ret = ExpectedStr(Parts, last.s)

\* "ab" rendered by [TextContent, Text("-"), TextContent].
C9_Witness ==
    /\ last.op = "format_str"
    /\ last.s = <<"a", "b">>
    /\ Parts = <<FormatPart_new("TextContent"), FormatPart_new_content("Text", <<"-">>),
                 FormatPart_new("TextContent")>>
    /\ last.ret = <<"a", "b", "-", "a", "b">>

\* C10: a render call leaves the ValueFormat as it was: its parts (kind,
\* attributes, content), attributes, name, value type, text attributes and
\* style maps.
C10_RenderLeavesFormatUnchanged ==
    [][last'.op \in RenderOps => fmt' = fmt]_vars

\* A render call made on a format with parts, one of them with attributes.
C10_Witness ==
    /\ last.op = "format_float"
    /\ Len(Parts) >= 2
    /\ \E i \in 1..Len(Parts) : IsSome(Parts[i].attr)
    /\ last.ret # <<>>

(***************************************************************************)
(* The state machine of a Detach slot and of the handles detached from it. *)
(* A panic unwinds the call; dlast.panic records it, and the caller (or    *)
(* another owner of the slot) goes on with the slot as the call left it.   *)
(***************************************************************************)
RemoveAt(s, i) == SubSeq(s, 1, i - 1) \o SubSeq(s, i + 1, Len(s))

\* Detach::new / Detach::from: the variable holds a fresh slot.
new(val) ==
    /\ dd' = Some(Detach_new(val))
    /\ dlast' = [DetachCall("new") EXCEPT !.arg = Some(val)]
    /\ hist' = [recent |-> "none", panicked |-> FALSE]
    /\ UNCHANGED <<fmtvars, attrvars, handles, th>>

is_detached ==
    /\ IsSome(dd)
    /\ dlast' = [DetachCall("is_detached") EXCEPT !.ret = Some(Detach_is_detached(Unwrap(dd)))]
    /\ UNCHANGED <<fmtvars, attrvars, dd, handles, hist, th>>

detach(key) ==
    /\ IsSome(dd)
    /\ Len(handles) < MaxHandles
    /\ LET r == Detach_detach(Unwrap(dd), key)
       IN  /\ dd' = Some(r.self)
           /\ handles' = IF r.panic THEN handles ELSE Append(handles, Unwrap(r.ret))
           /\ dlast' = [DetachCall("detach") EXCEPT !.key = key, !.ret = r.ret,
                            !.panic = r.panic]
           /\ hist' = IF r.panic THEN [hist EXCEPT !.panicked = TRUE]
                      ELSE [hist EXCEPT !.recent = "detach"]
    /\ UNCHANGED <<fmtvars, attrvars, th>>

\* attach consumes the handle.
attach(i) ==
    /\ IsSome(dd)
    /\ dd' = Some(Detach_attach(Unwrap(dd), handles[i]))
    /\ handles' = RemoveAt(handles, i)
    /\ dlast' = [DetachCall("attach") EXCEPT !.arg = Some(handles[i])]
    /\ hist' = [hist EXCEPT !.recent = "attach"]
    /\ UNCHANGED <<fmtvars, attrvars, th>>

as_ref ==
    /\ IsSome(dd)
    /\ LET r == Detach_as_ref(Unwrap(dd))
       IN  /\ dd' = Some(r.self)
           /\ dlast' = [DetachCall("as_ref") EXCEPT !.ret = r.ret, !.panic = r.panic]
    /\ UNCHANGED <<fmtvars, attrvars, handles, hist, th>>

\* The caller reads through the &mut T (write is None) or assigns through it.
as_mut(write) ==
    /\ IsSome(dd)
    /\ LET r == Detach_as_mut(Unwrap(dd))
       IN  /\ dd' = IF r.panic \/ IsNone(write) THEN Some(r.self)
                    ELSE Some([r.self EXCEPT !.val = write])
           /\ dlast' = [DetachCall("as_mut") EXCEPT !.arg = write, !.ret = r.ret,
                            !.panic = r.panic]
    /\ UNCHANGED <<fmtvars, attrvars, handles, hist, th>>

take ==
    /\ IsSome(dd)
    /\ LET r == Detach_take(Unwrap(dd))
       IN  /\ dd' = None
           /\ dlast' = [DetachCall("take") EXCEPT !.ret = r.ret, !.panic = r.panic]
    /\ UNCHANGED <<fmtvars, attrvars, handles, hist, th>>

\* DerefMut for Detached: the caller assigns through the handle.
deref_mut(i, val) ==
    /\ handles' = [handles EXCEPT ![i] = [@ EXCEPT !.val = val]]
    /\ dlast' = [DetachCall("deref_mut") EXCEPT !.arg = Some(val)]
    /\ UNCHANGED <<fmtvars, attrvars, dd, hist, th>>

NextDetach ==
    \/ \E val \in DetachValues : new(val)
    \/ is_detached
    \/ \E key \in DetachKeys : detach(key)
    \/ \E i \in 1..Len(handles) : attach(i)
    \/ as_ref
    \/ \E write \in {None} \cup {Some(v) : v \in DetachValues} : as_mut(write)
    \/ take
    \/ \E i \in 1..Len(handles), val \in DetachValues : deref_mut(i, val)

SpecDetach == Init /\ [][NextDetach]_vars

(***************************************************************************)
(* Properties of the Detach slot.                                          *)
(***************************************************************************)
\* The call just made found the slot detached.
FoundDetached == IsSome(dlast.before) /\ Unwrap(dlast.before).val = None

\* C11: on a slot whose value is detached, detach, as_ref, as_mut and take
\* panic; none returns a value, and none leaves a changed slot behind (take
\* consumes the slot, the others leave it as it was).
C11_DetachedSlotPanics ==
    (dlast.op \in {"detach", "as_ref", "as_mut", "take"} /\ FoundDetached) =>
        /\ dlast.panic
        /\ dlast.ret = None
        /\ IF dlast.op = "take" THEN dd = None ELSE dd = dlast.before

\* as_ref called on a detached slot.
C11_Witness ==
    /\ dlast.op = "as_ref"
    /\ FoundDetached
    /\ dlast.panic
    /\ Len(handles) = 1

\* C12: detach(key) on a slot that holds v returns a handle that derefs to v
\* and carries the key, and leaves the slot detached; attach of a handle
\* makes the slot present again with the handle's value, which as_ref and
\* take then return.
C12_DetachThenAttach ==
    /\ (dlast.op = "detach" /\ ~FoundDetached) =>
          /\ ~dlast.panic
          /\ IsSome(dlast.ret)
          /\ Detached_deref(Unwrap(dlast.ret)) = Unwrap(Unwrap(dlast.before).val)
          /\ Detached_key(Unwrap(dlast.ret)) = dlast.key
          /\ Detach_is_detached(Unwrap(dd))
          /\ handles[Len(handles)] = Unwrap(dlast.ret)
    /\ (dlast.op = "attach" /\ FoundDetached) =>
          /\ ~Detach_is_detached(Unwrap(dd))
          /\ Detach_as_ref(Unwrap(dd)).ret = Some(Unwrap(dlast.arg).val)
          /\ Detach_take(Unwrap(dd)).ret = Some(Unwrap(dlast.arg).val)

\* The handle detached with key 1 from a slot holding "fop" is attached
\* again, unmodified.
C12_Witness ==
    /\ dlast.op = "attach"
    /\ FoundDetached
    /\ dlast.arg = Some(Detached_new(1, "fop"))
    /\ Detach_as_ref(Unwrap(dd)).ret = Some("fop")
    /\ handles = <<>>

\* C16: over the detach and attach calls made on a slot, none of which
\* panicked, the slot is detached exactly when the most recent of them was a
\* detach; attach never panics; and attach onto a slot that still holds a
\* value replaces that value with the handle's.
C16_DetachedIffLastWasDetach ==
    /\ (IsSome(dd) /\ ~hist.panicked /\ hist.recent # "none") =>
          (Detach_is_detached(Unwrap(dd)) <=> hist.recent = "detach")
    /\ dlast.op = "attach" =>
          /\ ~dlast.panic
          /\ IsSome(dd)
          /\ Unwrap(dd).val = Some(Unwrap(dlast.arg).val)

\* A handle is attached onto a slot that holds another value.
C16_Witness ==
    /\ dlast.op = "attach"
    /\ ~FoundDetached
    /\ Unwrap(dlast.before).val = Some("bar")
    /\ Unwrap(dd).val = Some("fop")
    /\ ~hist.panicked

(***************************************************************************)
(* Render calls running concurrently on one shared ValueFormat.  Every     *)
(* render method takes &self, so while a call is in progress the borrow    *)
(* rules leave no &mut access to the format: the format is built first and *)
(* then only read.  A step of a thread is one iteration of the loop over   *)
(* the parts; buf and h12 are locals of the call.                          *)
(***************************************************************************)
SharedPool ==
    { FormatPart_new("Hours"),
      FormatPart_new("AmPm"),
      FormatPart_new("TextContent") }

SharedFormats ==
    { ValueFormat_new } \cup
    { [ValueFormat_new EXCEPT !.parts = Some(ps)] : ps \in SeqsUpTo(SharedPool, MaxSharedParts) }

\* The render calls the threads make: the method and its argument.
RenderCall(op) ==
    [op |-> op, b |-> TRUE, f |-> Finite(FALSE, 15, 1), s |-> <<"a", "b">>,
     d |-> DateTime(2023, 11, 25, 13, 30, 45), dur |-> 3725000]

RenderCalls == { RenderCall(op) : op \in RenderOps }

\* What the call of thread record c returns when nothing else runs.
RunAlone(self, c) ==
    CASE c.op = "format_boolean" -> ValueFormat_format_boolean(self, c.b)
      [] c.op = "format_float" -> ValueFormat_format_float(self, c.f)
      [] c.op = "format_str" -> ValueFormat_format_str(self, c.s)
      [] c.op = "format_datetime" -> ValueFormat_format_datetime(self, c.d)
      [] c.op = "format_time_duration" -> ValueFormat_format_time_duration(self, c.dur)

\* One iteration of `for p in parts` in the call of thread t, on a buffer
\* every call shares.
RenderStepSharedBuf(self, threads, t) ==
    LET c == threads[t]
        p == Unwrap(self.parts)[c.i]
        shared == threads[1].buf
        buf == CASE c.op = "format_boolean" -> FormatPart_format_boolean(p, shared, c.b)
                 [] c.op = "format_float" -> FormatPart_format_float(p, shared, c.f)
                 [] c.op = "format_str" -> FormatPart_format_str(p, shared, c.s)
                 [] c.op = "format_datetime" ->
                        FormatPart_format_datetime(p, shared, c.d, c.h12)
                 [] c.op = "format_time_duration" ->
                        FormatPart_format_time_duration(p, shared, c.dur)
    IN  [c EXCEPT !.buf = buf, !.i = c.i + 1]

\* One iteration of `for p in parts` in the call of thread t.
RenderStep(self, threads, t) ==
    LET c == threads[t]
        p == Unwrap(self.parts)[c.i]
        buf == CASE c.op = "format_boolean" -> FormatPart_format_boolean(p, c.buf, c.b)
                 [] c.op = "format_float" -> FormatPart_format_float(p, c.buf, c.f)
                 [] c.op = "format_str" -> FormatPart_format_str(p, c.buf, c.s)
                 [] c.op = "format_datetime" ->
                        FormatPart_format_datetime(p, c.buf, c.d, c.h12)
                 [] c.op = "format_time_duration" ->
                        FormatPart_format_time_duration(p, c.buf, c.dur)
    IN  [c EXCEPT !.buf = buf, !.i = c.i + 1]

InitConc ==
    /\ fmt \in SharedFormats
    /\ last = Call("new")
    /\ InitOthers

\* Thread t enters a render method: `let mut buf = String::new()`, and for
\* format_datetime the scan for an AmPm part.
Begin(t, call) ==
    /\ th[t].pc \in {"idle", "done"}
    /\ th' = [th EXCEPT ![t] =
                [pc |-> "loop", op |-> call.op, b |-> call.b, f |-> call.f, s |-> call.s,
                 d |-> call.d, dur |-> call.dur, i |-> 1, buf |-> EmptyStr,
                 h12 |-> IF call.op = "format_datetime" /\ IsSome(fmt.parts)
                         THEN AnyAmPm(Unwrap(fmt.parts)) ELSE FALSE,
                 ret |-> EmptyStr]]
    /\ UNCHANGED <<fmtvars, attrvars, detvars>>

Step(t) ==
    /\ th[t].pc = "loop"
    /\ IsSome(fmt.parts)
    /\ th[t].i <= Len(Unwrap(fmt.parts))
    /\ th' = [th EXCEPT ![t] = RenderStep(fmt, th, t)]
    /\ UNCHANGED <<fmtvars, attrvars, detvars>>

\* The loop is over, or there were no parts: the method returns buf.
Finish(t) ==
    /\ th[t].pc = "loop"
    /\ IsSome(fmt.parts) => th[t].i > Len(Unwrap(fmt.parts))
    /\ th' = [th EXCEPT ![t] = [th[t] EXCEPT !.pc = "done", !.ret = th[t].buf]]
    /\ UNCHANGED <<fmtvars, attrvars, detvars>>

NextConc ==
    \E t \in Threads :
        \/ \E call \in RenderCalls : Begin(t, call)
        \/ Step(t)
        \/ Finish(t)

SpecConc == InitConc /\ [][NextConc]_vars

\* C13: whatever the interleaving of the per-part steps of concurrent render
\* calls on one format, each call returns the string it returns when it runs
\* alone.
C13_ConcurrentRendersAsAlone ==
    \A t \in Threads : th[t].pc = "done" => th[t].ret = RunAlone(fmt, th[t])

\* Two datetime-reading calls of different methods have both returned, on a
\* format with an Hours and an AmPm part, with different strings.
C13_Witness ==
    /\ IsSome(fmt.parts)
    /\ Unwrap(fmt.parts) = <<FormatPart_new("Hours"), FormatPart_new("AmPm")>>
    /\ th[1].pc = "done" /\ th[1].op = "format_datetime"
    /\ th[2].pc = "done" /\ th[2].op = "format_str"
    /\ th[1].ret = <<"1", "P", "M">>
    /\ th[2].ret = EmptyStr

(***************************************************************************)
(* Month parts: formats assembled from Month parts with every combination  *)
(* of number:textual and number:style, rendered by format_datetime.        *)
(***************************************************************************)
MonthAttrs ==
    { <<>>,
      <<<<"number:textual", <<"t", "r", "u", "e">>>>>>,
      <<<<"number:textual", <<"f", "a", "l", "s", "e">>>>>>,
      StyleLong,
      <<<<"number:style", <<"s", "h", "o", "r", "t">>>>>>,
      <<<<"number:textual", <<"t", "r", "u", "e">>>>>> \o StyleLong,
      <<<<"number:textual", <<"f", "a", "l", "s", "e">>>>>> \o StyleLong,
      <<<<"number:textual", <<"t", "r", "u", "e">>>>,
        <<"number:style", <<"s", "h", "o", "r", "t">>>>>> }

MonthPool ==
    { FormatPart_new("Month") } \cup { FormatPart_new_vec("Month", a) : a \in MonthAttrs }

NextMonth ==
    \/ \E part \in MonthPool : push_part(part)
    \/ \E d \in DateTimeValues : format_datetime(d)

SpecMonth == Init /\ [][NextMonth]_vars

AttrIs(p, name, value) == HasAttr(p, name) /\ Unwrap(p.attr)[name] = value

MonthAbbreviations ==
    << <<"J", "a", "n">>, <<"F", "e", "b">>, <<"M", "a", "r">>, <<"A", "p", "r">>,
       <<"M", "a", "y">>, <<"J", "u", "n">>, <<"J", "u", "l">>, <<"A", "u", "g">>,
       <<"S", "e", "p">>, <<"O", "c", "t">>, <<"N", "o", "v">>, <<"D", "e", "c">> >>

\* What a Month part is to render for the month m.
ExpectedMonth(p, m) ==
    LET long == AttrIs(p, "number:style", <<"l", "o", "n", "g">>)
        textual == AttrIs(p, "number:textual", <<"t", "r", "u", "e">>)
    IN  CASE textual /\ long -> MonthAbbreviations[m]
          [] textual /\ ~long -> MonthNames[m]
          [] ~textual /\ long /\ m < 10 -> <<"0">> \o NatToString(m)
          [] OTHER -> NatToString(m)

RECURSIVE ExpectedMonthsFrom(_, _, _)
ExpectedMonthsFrom(ps, i, m) ==
    IF i > Len(ps) THEN <<>>
    ELSE ExpectedMonth(ps[i], m) \o ExpectedMonthsFrom(ps, i + 1, m)

\* C14: format_datetime renders a Month part whose number:textual is "true"
\* as the abbreviated month name when number:style is "long" and as the full
\* name otherwise; with number:textual unset or anything else, as the
\* zero-padded month number when number:style is "long" and as the unpadded
\* number otherwise.
C14_MonthTextualAndStyle ==
    (last.op = "format_datetime" /\ \A i \in 1..Len(Parts) : Parts[i].part_type = "Month") =>
        last.ret = ExpectedMonthsFrom(Parts, 1, last.d.month)

\* January rendered by a textual long, a textual, a long and a plain Month
\* part in turn (MaxParts of them at a time).
C14_Witness ==
    /\ last.op = "format_datetime"
    /\ last.d.month = 1
    /\ Len(Parts) = MaxParts
    /\ \E i \in 1..Len(Parts) :
          AttrIs(Parts[i], "number:textual", <<"f", "a", "l", "s", "e">>)
    /\ \E i \in 1..Len(Parts) :
          /\ AttrIs(Parts[i], "number:textual", <<"t", "r", "u", "e">>)
          /\ AttrIs(Parts[i], "number:style", <<"l", "o", "n", "g">>)
    /\ \E i \in 1..Len(Parts) :
          /\ ~HasAttr(Parts[i], "number:textual")
          /\ AttrIs(Parts[i], "number:style", <<"l", "o", "n", "g">>)
    /\ \E i, j \in 1..Len(last.ret) : last.ret[i] = "J" /\ last.ret[j] = "0"

(***************************************************************************)
(* Assembling a format with push_part and push_parts.                      *)
(***************************************************************************)
PushPool ==
    { FormatPart_new_vec("Year", StyleLong),
      FormatPart_new_content("Text", <<"-">>),
      FormatPart_new("Hours"),
      FormatPart_new("Seconds") }

push_parts(partvec) ==
    /\ Len(PartsOrNew(fmt)) + Len(partvec) <= MaxParts
    /\ fmt' = ValueFormat_push_parts(fmt, partvec)
    /\ last' = [Call("push_parts") EXCEPT !.vec = partvec]
    /\ UNCHANGED <<attrvars, detvars, th>>

NextPush ==
    \/ \E part \in PushPool : push_part(part)
    \/ \E partvec \in SeqsUpTo(PushPool, MaxVec) : push_parts(partvec)

SpecPush == Init /\ [][NextPush]_vars

\* C15: every push_part appends its part and every push_parts appends its
\* vector, in the vector's order, to the parts pushed before, on a format
\* that has no part vector yet as on one that has; so the part sequence is
\* the concatenation of everything pushed, in call order.
C15_PushesConcatenateInCallOrder ==
    [][ /\ last'.op = "push_part" =>
             /\ IsSome(fmt'.parts)
             /\ Unwrap(fmt'.parts) = Parts \o <<last'.part>>
        /\ last'.op = "push_parts" =>
             /\ IsSome(fmt'.parts)
             /\ Unwrap(fmt'.parts) = Parts \o last'.vec ]_vars

\* push_parts, called before any part was pushed, has stored its vector of
\* two different parts.
C15_Witness ==
    /\ last.op = "push_parts"
    /\ Len(last.vec) = 2
    /\ last.vec[1] # last.vec[2]
    /\ IsSome(fmt.parts)
    /\ Unwrap(fmt.parts) = last.vec

====
